---- MODULE Spec2Model ----
(***************************************************************************)
(* Model of handlers/question-generator/app.py: the pure helper            *)
(* clean_skills and the request handler lambda_handler.                    *)
(*                                                                         *)
(* A Python str is a sequence of one-character strings, so that replace,   *)
(* split, strip and lstrip are computed character by character.  A value   *)
(* produced by json.loads is a record [t |-> type, v |-> payload].         *)
(***************************************************************************)
EXTENDS Integers, Sequences, FiniteSets, TLC

(***************************************************************************)
(* Bounds of the enumerated inputs.                                        *)
(***************************************************************************)
\* length of the token sequences the raw skills lists are built from
MaxTokens == 3
\* length of the token sequences the model output texts are built from
MaxOut == 3

(***************************************************************************)
(* Python values.                                                          *)
(***************************************************************************)
PyNone == [t |-> "null", v |-> <<>>]
PyStr(s) == [t |-> "str", v |-> s]
PyNum(n) == [t |-> "num", v |-> n]
PyList(l) == [t |-> "list", v |-> l]
PyDict(d) == [t |-> "dict", v |-> d]
\* the dict with no key
EmptyDict == [k \in {} |-> PyNone]

\* a variant of Truthy that tests only `is None`
Truthy_NoneOnly(v) == v.t # "null"

\* bool(v), as `not v` uses it
Truthy(v) ==
    CASE v.t = "null" -> FALSE
      [] v.t = "str" -> Len(v.v) > 0
      [] v.t = "num" -> v.v # 0
      [] v.t = "list" -> Len(v.v) > 0
      [] v.t = "dict" -> DOMAIN v.v # {}
      [] OTHER -> TRUE

\* dict.get(key, default) on the mapping d
DictGet(d, key, default) == IF key \in DOMAIN d THEN d[key] ELSE default

(***************************************************************************)
(* str methods.                                                            *)
(***************************************************************************)
\* the characters str.strip() removes
Whitespace == {" ", "\t", "\n", "\r"}

StartsWith(s, p) == Len(s) >= Len(p) /\ SubSeq(s, 1, Len(p)) = p

\* s.replace(old, new): every non-overlapping occurrence, left to right
RECURSIVE str_replace(_, _, _)
str_replace(s, old, new) ==
    IF s = <<>> THEN <<>>
    ELSE IF StartsWith(s, old)
         THEN new \o str_replace(SubSeq(s, Len(old) + 1, Len(s)), old, new)
         ELSE <<Head(s)>> \o str_replace(Tail(s), old, new)

\* s.split(sep) for a one-character sep: always at least one piece
RECURSIVE str_split(_, _)
str_split(s, sep) ==
    IF \A i \in 1..Len(s) : s[i] # sep THEN <<s>>
    ELSE LET i == CHOOSE j \in 1..Len(s) :
                      s[j] = sep /\ \A k \in 1..(j - 1) : s[k] # sep
         IN <<SubSeq(s, 1, i - 1)>> \o str_split(SubSeq(s, i + 1, Len(s)), sep)

\* s.lstrip(chars)
RECURSIVE str_lstrip(_, _)
str_lstrip(s, chars) ==
    IF s # <<>> /\ Head(s) \in chars THEN str_lstrip(Tail(s), chars) ELSE s

\* s.rstrip(chars)
RECURSIVE str_rstrip(_, _)
str_rstrip(s, chars) ==
    IF s # <<>> /\ s[Len(s)] \in chars
    THEN str_rstrip(SubSeq(s, 1, Len(s) - 1), chars) ELSE s

\* s.strip()
str_strip(s) == str_rstrip(str_lstrip(s, Whitespace), Whitespace)

\* sep.join(items)
RECURSIVE str_join(_, _)
str_join(sep, items) ==
    IF items = <<>> THEN <<>>
    ELSE IF Len(items) = 1 THEN items[1]
    ELSE items[1] \o sep \o str_join(sep, Tail(items))

(***************************************************************************)
(* clean_skills.                                                           *)
(***************************************************************************)
\* the literal removed from every raw entry
SkillsMarker == <<"S", "K", "I", "L", "L", "S", ":">>

\* a variant of CleanPart that keeps the first segment: split(':')[0]
CleanPart_FirstSegment(part) ==
    LET segs == str_split(str_strip(part), ":")
    IN str_strip(segs[1])

\* cleaned_skill of one part: part.strip().split(':')[-1].strip()
CleanPart(part) ==
    LET segs == str_split(str_strip(part), ":")
    IN str_strip(segs[Len(segs)])

\* the inner loop over parts: append each non-empty cleaned_skill
RECURSIVE CleanParts(_)
CleanParts(parts) ==
    IF parts = <<>> THEN <<>>
    ELSE LET cleaned_skill == CleanPart(Head(parts))
         IN (IF cleaned_skill # <<>> THEN <<cleaned_skill>> ELSE <<>>)
                \o CleanParts(Tail(parts))

\* the parts of one raw entry: skill.replace('SKILLS:', '').split(',')
SkillParts(skill) == str_split(str_replace(skill, SkillsMarker, <<>>), ",")

\* clean_skills on a sequence of str
RECURSIVE clean_skills(_)
clean_skills(skills_list) ==
    IF skills_list = <<>> THEN <<>>
    ELSE CleanParts(SkillParts(Head(skills_list)))
             \o clean_skills(Tail(skills_list))

(***************************************************************************)
(* json and bytes.  A str that holds a JSON document is kept as the value  *)
(* it parses to, or as malformed; bytes are kept as the str they decode    *)
(* to, or as undecodable.                                                  *)
(***************************************************************************)
JsonText(value) == [t |-> "jsontext", v |-> [wellformed |-> TRUE, value |-> value]]
MalformedText == [t |-> "jsontext", v |-> [wellformed |-> FALSE, value |-> PyNone]]
Utf8Bytes(text) == [t |-> "bytes", v |-> [utf8 |-> TRUE, text |-> text]]
BadBytes == [t |-> "bytes", v |-> [utf8 |-> FALSE, text |-> MalformedText]]

\* the outcome of a call: a value, or an exception with its str(e)
Returned(val) == [ok |-> TRUE, val |-> val, exc |-> ""]
Raised(text) == [ok |-> FALSE, val |-> PyNone, exc |-> text]

\* json.loads(s)
json_loads(s) ==
    IF s.t # "jsontext"
    THEN Raised("the JSON object must be str, bytes or bytearray")
    ELSE IF ~s.v.wellformed THEN Raised("Expecting value")
    ELSE Returned(s.v.value)

\* json.dumps(obj): a well-formed document that parses back to obj
json_dumps(obj) == JsonText(obj)

\* bytes.decode('utf-8')
bytes_decode(b) ==
    IF b.v.utf8 THEN Returned(b.v.text)
    ELSE Raised("'utf-8' codec can't decode byte")

(***************************************************************************)
(* The state of one invocation of lambda_handler.                          *)
(***************************************************************************)
VARIABLES
    event,        \* the event argument
    environ,      \* os.environ: the set of variables that are set
    pc,           \* the handler's position
    user_id,      \* local user_id
    parsed_data,  \* local parsed_data
    raw_skills,   \* local raw_skills
    skills,       \* local skills, the cleaned list
    skills_str,   \* local skills_str
    projects_str, \* local projects_str
    result,       \* local result, the model's text
    questions,    \* local questions
    exc,          \* str(e) of the exception being handled, "" when none
    calls,        \* the external calls made so far, in order
    responses,    \* the objects returned to the caller, in order
    escaped       \* str(e) of an exception that left the handler, "" when none

vars == <<event, environ, pc, user_id, parsed_data, raw_skills, skills,
          skills_str, projects_str, result, questions, exc, calls, responses,
          escaped>>

\* the headers every return statement builds
CorsHeaders ==
    ("Access-Control-Allow-Origin" :> "*") @@ ("Content-Type" :> "application/json")

\* a return statement's dict
Response(status, payload) ==
    [statusCode |-> status, body |-> json_dumps(payload), headers |-> CorsHeaders]

\* the body of an error response: {'error': <text>}; an f-string's text is
\* kept as its literal part followed by the interpolated str(e)
ErrorPayload(text) == PyDict([error |-> PyStr(text)])

\* a return statement: the response goes to the caller and the invocation ends
Return(resp) ==
    /\ responses' = Append(responses, resp)
    /\ pc' = "done"

\* a raise inside the outer try, outside the inner one: control goes to line 133
RaiseOuter(text) ==
    /\ exc' = text
    /\ pc' = "except"

(***************************************************************************)
(* The inputs: events, stored objects, model outputs.                      *)
(***************************************************************************)
\* all sequences over S of length at most n
SeqsUpTo(S, n) == UNION {[1..k -> S] : k \in 0..n}

\* the userId values a request body carries
UserIdValues == {PyNone, PyStr(<<>>), PyStr(<<"u", "1">>)}

\* the values a well-formed request body parses to
RequestBodies ==
    {PyNone, PyList(<<>>), PyDict(EmptyDict)}
        \cup {PyDict([userId |-> u]) : u \in UserIdValues}

\* the event arguments: not a dict, no body key, body None, body not JSON,
\* body a JSON document
Events ==
    {PyNone, PyDict(EmptyDict), PyDict([body |-> PyNone]),
     PyDict([body |-> MalformedText])}
        \cup {PyDict([body |-> JsonText(b)]) : b \in RequestBodies}

\* the tokens a raw skills list is written with: "|" ends an entry, "M" is
\* the marker, "m" the marker in lower case, the others are one character
SkillTokens == {"M", "m", "a", "b", ":", ",", " ", "|"}

TokenChars(tok) ==
    CASE tok = "M" -> SkillsMarker
      [] tok = "m" -> <<"s", "k", "i", "l", "l", "s", ":">>
      [] OTHER -> <<tok>>

\* the str a sequence of tokens spells
RECURSIVE Spell(_)
Spell(toks) ==
    IF toks = <<>> THEN <<>> ELSE TokenChars(Head(toks)) \o Spell(Tail(toks))

\* the list of str a sequence of tokens spells, "|" between the entries
EntriesOf(toks) ==
    LET pieces == str_split(toks, "|")
    IN [i \in 1..Len(pieces) |-> Spell(pieces[i])]

\* longer entries, among them the example of the specification
ExampleSkillLists ==
    { << <<"S", "K", "I", "L", "L", "S", ":", " ", "a", ":", " ", "x", ",",
           " ", "b", ":", " ", "y">> >>,
      << <<"S", "K", "I", "L", "S", "K", "I", "L", "L", "S", ":", "L", "S",
           ":", "x">> >>,
      << <<"x", " ", "S", "K", "I", "L", "L", "S", ":", " ", "y", ",", "a">>,
         <<"a", " ", ":", "\t", "a", "\n">> >> }

\* the lists of str stored under 'skills'
SkillLists ==
    {<<>>} \cup {EntriesOf(toks) : toks \in SeqsUpTo(SkillTokens, MaxTokens)}
           \cup ExampleSkillLists

\* the values stored under 'skills': lists of str, a list with an element
\* that is no str, null, a bare str
StoredSkills ==
    {PyList([i \in 1..Len(l) |-> PyStr(l[i])]) : l \in SkillLists}
        \cup {PyList(<<PyStr(<<"a">>), PyNum(1)>>), PyNone,
              PyStr(<<"a", ",", "b">>)}

\* the values stored under 'projects'
StoredProjects == {PyStr(<<"p">>), PyList(<<PyStr(<<"p">>)>>)}

\* the documents stored at the key: a record with or without each field,
\* or a document that is no object
StoredValues ==
    {PyNone, PyList(<<>>), PyDict(EmptyDict)}
        \cup {PyDict([projects |-> p]) : p \in StoredProjects}
        \cup {PyDict([skills |-> s]) : s \in StoredSkills}
        \cup {PyDict([skills |-> s, projects |-> p]) :
                  s \in StoredSkills, p \in StoredProjects}

\* what s3.get_object(...)['Body'].read() gives: raises, or bytes
GetObjectOutcomes ==
    {Raised("NoSuchKey"), Raised("AccessDenied"), Returned(BadBytes),
     Returned(Utf8Bytes(MalformedText))}
        \cup {Returned(Utf8Bytes(JsonText(d))) : d \in StoredValues}

Init ==
    /\ event \in Events
    /\ environ \in {{}, {"BUCKET_NAME"}}
    /\ pc = "start"
    /\ user_id = PyNone
    /\ parsed_data = PyNone
    /\ raw_skills = PyNone
    /\ skills = <<>>
    /\ skills_str = <<>>
    /\ projects_str = PyNone
    /\ result = <<>>
    /\ questions = <<>>
    /\ exc = ""
    /\ calls = <<>>
    /\ responses = <<>>
    /\ escaped = ""

(***************************************************************************)
(* lambda_handler, statement by statement.                                 *)
(***************************************************************************)
\* lines 24-25: body = json.loads(event.get('body', '{}')); body.get('userId')
ParseBody ==
    /\ pc = "start"
    /\ IF event.t # "dict"
       THEN RaiseOuter("object has no attribute 'get'") /\ UNCHANGED user_id
       ELSE LET body == json_loads(DictGet(event.v, "body",
                                           JsonText(PyDict(EmptyDict))))
            IN IF ~body.ok
               THEN RaiseOuter(body.exc) /\ UNCHANGED user_id
               ELSE IF body.val.t # "dict"
               THEN RaiseOuter("object has no attribute 'get'") /\ UNCHANGED user_id
               ELSE /\ user_id' = DictGet(body.val.v, "userId", PyNone)
                    /\ pc' = "check_user"
                    /\ UNCHANGED exc
    /\ UNCHANGED <<event, environ, parsed_data, raw_skills, skills,
                   skills_str, projects_str, result, questions, calls,
                   responses, escaped>>

\* lines 27-35: if not user_id: return 400
CheckUserId ==
    /\ pc = "check_user"
    /\ IF ~Truthy(user_id)
       THEN Return(Response(400, ErrorPayload(<<"userId is required">>)))
       ELSE pc' = "s3_init" /\ UNCHANGED responses
    /\ UNCHANGED <<event, environ, user_id, parsed_data, raw_skills, skills,
                   skills_str, projects_str, result, questions, exc, calls,
                   escaped>>

\* a variant of InitS3 with the two statements inside the inner try
InitS3_InsideTry ==
    /\ pc = "s3_init"
    /\ \E client \in {Returned(PyNone), Raised("You must specify a region.")} :
          IF ~client.ok THEN exc' = client.exc /\ pc' = "except_fetch"
          ELSE IF "BUCKET_NAME" \notin environ
          THEN exc' = "'BUCKET_NAME'" /\ pc' = "except_fetch"
          ELSE pc' = "fetch" /\ UNCHANGED exc
    /\ UNCHANGED <<event, environ, user_id, parsed_data, raw_skills, skills,
                   skills_str, projects_str, result, questions, calls,
                   responses, escaped>>

\* lines 38-39: s3 = boto3.client('s3'); bucket_name = os.environ['BUCKET_NAME']
InitS3 ==
    /\ pc = "s3_init"
    /\ \E client \in {Returned(PyNone), Raised("You must specify a region.")} :
          IF ~client.ok THEN RaiseOuter(client.exc)
          ELSE IF "BUCKET_NAME" \notin environ THEN RaiseOuter("'BUCKET_NAME'")
          ELSE pc' = "fetch" /\ UNCHANGED exc
    /\ UNCHANGED <<event, environ, user_id, parsed_data, raw_skills, skills,
                   skills_str, projects_str, result, questions, calls,
                   responses, escaped>>

\* line 43: file_key = f'generated/{user_id}_parsed.json'
FileKey(uid) == <<"generated/", uid.v, "_parsed.json">>

\* lines 42-45: the inner try: get_object, read, decode, json.loads
GetObject(outcomes) ==
    /\ pc = "fetch"
    /\ \E got \in outcomes :
          LET text == IF got.ok THEN bytes_decode(got.val) ELSE got
              data == IF text.ok THEN json_loads(text.val) ELSE text
          IN /\ calls' = Append(calls, [op |-> "s3.get_object",
                                        arg |-> FileKey(user_id), out |-> got])
             /\ IF data.ok
                THEN /\ parsed_data' = data.val
                     /\ pc' = "extract"
                     /\ UNCHANGED exc
                ELSE /\ exc' = data.exc
                     /\ pc' = "except_fetch"
                     /\ UNCHANGED parsed_data
    /\ UNCHANGED <<event, environ, user_id, raw_skills, skills, skills_str,
                   projects_str, result, questions, responses, escaped>>

\* a variant of FetchExcept without the inner except clause: the exception
\* goes on to the outer one
FetchExcept_FallThrough ==
    /\ pc = "except_fetch"
    /\ pc' = "except"
    /\ UNCHANGED <<event, environ, user_id, parsed_data, raw_skills, skills,
                   skills_str, projects_str, result, questions, exc, calls,
                   responses, escaped>>

\* a variant of FetchExcept that reads the object once more before giving up
FetchExcept_Retry ==
    /\ pc = "except_fetch"
    /\ IF Len(calls) < 2
       THEN /\ calls' = Append(calls, calls[Len(calls)])
            /\ UNCHANGED <<pc, responses>>
       ELSE /\ Return(Response(404,
                   ErrorPayload(<<"Failed to retrieve parsed data: ", exc>>)))
            /\ UNCHANGED calls
    /\ UNCHANGED <<event, environ, user_id, parsed_data, raw_skills, skills,
                   skills_str, projects_str, result, questions, exc, escaped>>

\* lines 46-54: except Exception as e: return 404
FetchExcept ==
    /\ pc = "except_fetch"
    /\ Return(Response(404,
           ErrorPayload(<<"Failed to retrieve parsed data: ", exc>>)))
    /\ UNCHANGED <<event, environ, user_id, parsed_data, raw_skills, skills,
                   skills_str, projects_str, result, questions, exc, calls,
                   escaped>>

\* whether clean_skills(raw) raises: raw is None or a number, which cannot
\* be iterated, or a list with an element that has no replace method
CleanRaises(raw) ==
    \/ raw.t \in {"null", "num"}
    \/ raw.t = "list" /\ \E i \in 1..Len(raw.v) : raw.v[i].t # "str"

\* the str items a for loop over raw yields: the elements of a list of str,
\* the characters of a str
ItemsOf(raw) ==
    IF raw.t = "list" THEN [i \in 1..Len(raw.v) |-> raw.v[i].v]
    ELSE [i \in 1..Len(raw.v) |-> <<raw.v[i]>>]

\* lines 57-58: raw_skills = parsed_data.get('skills', []); clean_skills
ExtractSkills ==
    /\ pc = "extract"
    /\ IF parsed_data.t # "dict"
       THEN RaiseOuter("object has no attribute 'get'")
                /\ UNCHANGED <<raw_skills, skills>>
       ELSE LET raw == DictGet(parsed_data.v, "skills", PyList(<<>>))
            IN /\ raw_skills' = raw
               /\ IF CleanRaises(raw)
                  THEN RaiseOuter("clean_skills: bad skills value")
                           /\ UNCHANGED skills
                  ELSE /\ skills' = clean_skills(ItemsOf(raw))
                       /\ pc' = "check_skills"
                       /\ UNCHANGED exc
    /\ UNCHANGED <<event, environ, user_id, parsed_data, skills_str,
                   projects_str, result, questions, calls, responses, escaped>>

\* a variant of CheckSkills that tests the raw list: if not raw_skills
CheckSkills_RawList ==
    /\ pc = "check_skills"
    /\ IF ~Truthy(raw_skills)
       THEN Return(Response(400,
                ErrorPayload(<<"No skills found in parsed data">>)))
       ELSE pc' = "setup_model" /\ UNCHANGED responses
    /\ UNCHANGED <<event, environ, user_id, parsed_data, raw_skills, skills,
                   skills_str, projects_str, result, questions, exc, calls,
                   escaped>>

\* lines 60-68: if not skills: return 400
CheckSkills ==
    /\ pc = "check_skills"
    /\ IF skills = <<>>
       THEN Return(Response(400,
                ErrorPayload(<<"No skills found in parsed data">>)))
       ELSE pc' = "setup_model" /\ UNCHANGED responses
    /\ UNCHANGED <<event, environ, user_id, parsed_data, raw_skills, skills,
                   skills_str, projects_str, result, questions, exc, calls,
                   escaped>>

\* what constructing a client, an llm, a prompt or a chain does: it returns,
\* or it raises
SetupOutcomes(text) == {Returned(PyNone), Raised(text)}

\* lines 71-79: bedrock_client = boto3.client(...); llm = Bedrock(...)
SetupModel ==
    /\ pc = "setup_model"
    /\ \E made \in SetupOutcomes("Could not load credentials") :
          IF made.ok THEN pc' = "build_prompt" /\ UNCHANGED exc
          ELSE RaiseOuter(made.exc)
    /\ UNCHANGED <<event, environ, user_id, parsed_data, raw_skills, skills,
                   skills_str, projects_str, result, questions, calls,
                   responses, escaped>>

\* lines 98-107: skills_str, projects_str, PromptTemplate(...), LLMChain(...)
BuildPrompt ==
    /\ pc = "build_prompt"
    /\ skills_str' = str_join(<<",", " ">>, skills)
    /\ projects_str' = DictGet(parsed_data.v, "projects", PyStr(<<>>))
    /\ \E made \in SetupOutcomes("validation error for LLMChain") :
          IF made.ok THEN pc' = "invoke" /\ UNCHANGED exc
          ELSE RaiseOuter(made.exc)
    /\ UNCHANGED <<event, environ, user_id, parsed_data, raw_skills, skills,
                   result, questions, calls, responses, escaped>>

\* lines 108-111: result = chain.run({...}): the one inference call
InvokeModel(outputs) ==
    /\ pc = "invoke"
    /\ \E run \in {Raised("ThrottlingException")}
                      \cup {Returned(PyStr(o)) : o \in outputs} :
          /\ calls' = Append(calls, [op |-> "bedrock.invoke_model",
                                     arg |-> <<skills_str, projects_str>>,
                                     out |-> run])
          /\ IF run.ok
             THEN /\ result' = run.val.v
                  /\ pc' = "post_process"
                  /\ UNCHANGED exc
             ELSE RaiseOuter(run.exc) /\ UNCHANGED result
    /\ UNCHANGED <<event, environ, user_id, parsed_data, raw_skills, skills,
                   skills_str, projects_str, questions, responses, escaped>>

\* the characters of the lstrip argument at line 115: the digits, '.', ')',
\* '-', the three glyph characters U+201A U+00F3 U+00E8 and the space
StripChars ==
    {"0", "1", "2", "3", "4", "5", "6", "7", "8", "9", ".", ")", "-",
     "U+201A", "U+00F3", "U+00E8", " "}

\* the comprehension over the lines: keep q when q.strip() is not empty, as
\* q.strip().lstrip(...)
RECURSIVE QuestionsOf(_)
QuestionsOf(lines) ==
    IF lines = <<>> THEN <<>>
    ELSE LET q == Head(lines)
         IN (IF str_strip(q) # <<>>
             THEN <<str_lstrip(str_strip(q), StripChars)>> ELSE <<>>)
                \o QuestionsOf(Tail(lines))

\* lines 114-118: questions = [... for q in result.strip().split('\n') ...]
PostProcess ==
    /\ pc = "post_process"
    /\ questions' = QuestionsOf(str_split(str_strip(result), "\n"))
    /\ pc' = "respond"
    /\ UNCHANGED <<event, environ, user_id, parsed_data, raw_skills, skills,
                   skills_str, projects_str, result, exc, calls, responses,
                   escaped>>

\* a list of str as json.dumps gets it
StrList(l) == PyList([i \in 1..Len(l) |-> PyStr(l[i])])

\* a variant of Respond200 that reports the raw skills: 'skills_used': raw_skills
Respond200_RawSkills ==
    /\ pc = "respond"
    /\ Return(Response(200, PyDict([questions |-> StrList(questions),
                                    skills_used |-> raw_skills])))
    /\ UNCHANGED <<event, environ, user_id, parsed_data, raw_skills, skills,
                   skills_str, projects_str, result, questions, exc, calls,
                   escaped>>

\* lines 121-131: return 200 with questions and skills_used
Respond200 ==
    /\ pc = "respond"
    /\ Return(Response(200, PyDict([questions |-> StrList(questions),
                                    skills_used |-> StrList(skills)])))
    /\ UNCHANGED <<event, environ, user_id, parsed_data, raw_skills, skills,
                   skills_str, projects_str, result, questions, exc, calls,
                   escaped>>

\* a variant of OuterExcept that raises again instead of returning
OuterExcept_Reraise ==
    /\ pc = "except"
    /\ escaped' = exc
    /\ pc' = "done"
    /\ UNCHANGED <<event, environ, user_id, parsed_data, raw_skills, skills,
                   skills_str, projects_str, result, questions, exc, calls,
                   responses>>

\* a variant of OuterExcept that leaves the exception text out of the body
OuterExcept_NoDetail ==
    /\ pc = "except"
    /\ Return(Response(500, ErrorPayload(<<"Internal server error">>)))
    /\ UNCHANGED <<event, environ, user_id, parsed_data, raw_skills, skills,
                   skills_str, projects_str, result, questions, exc, calls,
                   escaped>>

\* lines 133-141: except Exception as e: return 500
OuterExcept ==
    /\ pc = "except"
    /\ Return(Response(500, ErrorPayload(<<"Internal server error: ", exc>>)))
    /\ UNCHANGED <<event, environ, user_id, parsed_data, raw_skills, skills,
                   skills_str, projects_str, result, questions, exc, calls,
                   escaped>>

(***************************************************************************)
(* The specifications.  Spec draws the stored record from every list of    *)
(* raw skills within MaxTokens and the model output from a few texts;      *)
(* SpecOutputs draws the model output from every text within MaxOut and    *)
(* the stored record from a few.                                           *)
(***************************************************************************)
\* model outputs: the example of the specification, an empty text, lines
\* that are only a marker, a glyph line, a line with a tab after the marker
ExampleOutputs ==
    { <<"1", ".", " ", "X", "?", "\n", "2", ")", " ", "Y", "\n", "-", " ", "Z">>,
      <<>>,
      <<"1", ".", "\n", "Q">>,
      <<"U+201A", " ", "Q", "\n", "\n", " ", "1", "0", ".", "\t", "Q", " ">> }

\* the characters the enumerated model outputs are written with
OutputChars == {"1", ".", "-", " ", "\n", "Q", "U+201A"}

AllOutputs == SeqsUpTo(OutputChars, MaxOut)

\* a few outcomes of the storage read
ExampleObjectOutcomes ==
    {Raised("NoSuchKey"), Returned(Utf8Bytes(MalformedText)),
     Returned(Utf8Bytes(JsonText(PyDict(EmptyDict)))),
     Returned(Utf8Bytes(JsonText(PyDict(
         [skills |-> StrList(<< <<"a">>, <<"b", ",", "a">> >>)]))))}

Next ==
    \/ ParseBody
    \/ CheckUserId
    \/ InitS3
    \/ GetObject(GetObjectOutcomes)
    \/ FetchExcept
    \/ ExtractSkills
    \/ CheckSkills
    \/ SetupModel
    \/ BuildPrompt
    \/ InvokeModel(ExampleOutputs)
    \/ PostProcess
    \/ Respond200
    \/ OuterExcept

Spec == Init /\ [][Next]_vars

NextOutputs ==
    \/ ParseBody
    \/ CheckUserId
    \/ InitS3
    \/ GetObject(ExampleObjectOutcomes)
    \/ FetchExcept
    \/ ExtractSkills
    \/ CheckSkills
    \/ SetupModel
    \/ BuildPrompt
    \/ InvokeModel(AllOutputs)
    \/ PostProcess
    \/ Respond200
    \/ OuterExcept

SpecOutputs == Init /\ [][NextOutputs]_vars

(***************************************************************************)
(* What a run shows from outside: the request as sent, the calls made and  *)
(* what they answered, the response.                                       *)
(***************************************************************************)
Done == pc = "done"

\* the request carries a JSON object (an event without body counts as {})
HasRequestObject ==
    /\ event.t = "dict"
    /\ \/ "body" \notin DOMAIN event.v
       \/ /\ event.v["body"].t = "jsontext"
          /\ event.v["body"].v.wellformed
          /\ event.v["body"].v.value.t = "dict"

\* the fields of that object
RequestFields ==
    IF "body" \notin DOMAIN event.v THEN EmptyDict
    ELSE event.v["body"].v.value.v

\* the calls made to one operation
CallsTo(op) == SelectSeq(calls, LAMBDA c : c.op = op)

StorageReads == CallsTo("s3.get_object")
InferenceCalls == CallsTo("bedrock.invoke_model")

\* the answer of a storage read is a readable, well-formed JSON document
ReadableObject(out) ==
    /\ out.ok
    /\ out.val.v.utf8
    /\ out.val.v.text.v.wellformed

\* the text of the failure of a storage read that is not readable
ReadFailureText(out) ==
    IF ~out.ok THEN out.exc
    ELSE IF ~out.val.v.utf8 THEN "'utf-8' codec can't decode byte"
    ELSE "Expecting value"

StorageReadFailed ==
    Len(StorageReads) > 0 /\ ~ReadableObject(StorageReads[1].out)

StorageReadSucceeded ==
    Len(StorageReads) > 0 /\ ReadableObject(StorageReads[1].out)

\* the document a successful storage read delivered
StoredDocument == StorageReads[1].out.val.v.text.v.value

\* the status of the response
Status == responses[1].statusCode

\* a response object as the envelope requires it
WellFormedResponse(r) ==
    /\ DOMAIN r = {"statusCode", "body", "headers"}
    /\ r.statusCode \in {200, 400, 404, 500}
    /\ r.body.t = "jsontext"
    /\ r.body.v.wellformed
    /\ r.body.v.value.t = "dict"
    /\ {"Access-Control-Allow-Origin", "Content-Type"} \subseteq DOMAIN r.headers
    /\ r.headers["Access-Control-Allow-Origin"] = "*"
    /\ r.headers["Content-Type"] = "application/json"

(***************************************************************************)
(* C1.  Every invocation ends by returning exactly one response object     *)
(* with a statusCode in {200, 400, 404, 500}, a JSON body and the two      *)
(* headers; no exception leaves the handler.  Nothing is returned before   *)
(* the end, the handler is always at a statement of its own, and every     *)
(* step takes it further down the function, so that it reaches its end.    *)
(***************************************************************************)
\* the statements of the handler in the order of the source; the two except
\* clauses come after what they guard
Positions ==
    <<"start", "check_user", "s3_init", "fetch", "except_fetch", "extract",
      "check_skills", "setup_model", "build_prompt", "invoke", "post_process",
      "respond", "except", "done">>

Rank(p) == CHOOSE i \in 1..Len(Positions) : Positions[i] = p

\* C1: one well-formed response at the end, none before, no exception out,
\* every step further down the function
C1_OneResponseAlways ==
    /\ [](/\ escaped = ""
          /\ \E i \in 1..Len(Positions) : Positions[i] = pc
          /\ Done => Len(responses) = 1 /\ WellFormedResponse(responses[1])
          /\ ~Done => responses = <<>>)
    /\ [][Rank(pc') > Rank(pc)]_vars

\* an invocation whose event was no dict has ended with its response
C1_Witness ==
    /\ Done
    /\ event.t # "dict"
    /\ Len(responses) = 1
    /\ Status = 500

(***************************************************************************)
(* C2.  When the request object has no userId key, or has the empty        *)
(* string there, the response is 400 {error: "userId is required"} and     *)
(* neither the storage read nor the inference call is made.                *)
(***************************************************************************)
UserIdAbsentOrEmpty ==
    /\ HasRequestObject
    /\ \/ "userId" \notin DOMAIN RequestFields
       \/ RequestFields["userId"] = PyStr(<<>>)

\* C2: userId absent or empty gives 400 "userId is required", no call made
C2_MissingUserIdIs400 ==
    UserIdAbsentOrEmpty =>
        /\ calls = <<>>
        /\ Done => responses =
               <<Response(400, ErrorPayload(<<"userId is required">>))>>

\* a request whose userId is the empty string has been answered
C2_Witness ==
    /\ Done
    /\ HasRequestObject
    /\ "userId" \in DOMAIN RequestFields
    /\ RequestFields["userId"] = PyStr(<<>>)
    /\ Status = 400

(***************************************************************************)
(* C3.  When the storage read of generated/{userId}_parsed.json fails      *)
(* (the call raises, the bytes are no UTF-8, the text is no JSON), the     *)
(* response is 404 with the error "Failed to retrieve parsed data: "       *)
(* followed by the failure's text, and no inference call is made.          *)
(***************************************************************************)
\* C3: a failed storage read gives 404 with the prefixed error, no inference
C3_FetchFailureIs404 ==
    StorageReadFailed =>
        /\ StorageReads[1].arg =
               <<"generated/", RequestFields["userId"].v, "_parsed.json">>
        /\ InferenceCalls = <<>>
        /\ pc \in {"except_fetch", "done"}
        /\ Done => responses =
               <<Response(404, ErrorPayload(
                     <<"Failed to retrieve parsed data: ",
                       ReadFailureText(StorageReads[1].out)>>))>>

\* the stored text was no JSON, and the invocation has ended
C3_Witness ==
    /\ Done
    /\ StorageReadFailed
    /\ StorageReads[1].out.ok
    /\ StorageReads[1].out.val.v.utf8
    /\ Status = 404

(***************************************************************************)
(* C4.  An inference call is made only with a non-empty cleaned skills     *)
(* list.  When the fetched record has no skills key, or an empty list, or  *)
(* a list of entries written only with whitespace, commas, colons and the  *)
(* SKILLS: marker, or any list that cleans to nothing, the response is     *)
(* 400 {error: "No skills found in parsed data"} and no inference call is  *)
(* made.                                                                   *)
(***************************************************************************)
\* the entry is written only with whitespace, commas, colons and the marker
RECURSIVE NoiseOnly(_)
NoiseOnly(entry) ==
    \/ entry = <<>>
    \/ Head(entry) \in Whitespace \cup {",", ":"} /\ NoiseOnly(Tail(entry))
    \/ StartsWith(entry, SkillsMarker)
           /\ NoiseOnly(SubSeq(entry, Len(SkillsMarker) + 1, Len(entry)))

\* the fetched document is a record whose skills are a list of str
StoredStrList ==
    /\ StorageReadSucceeded
    /\ StoredDocument.t = "dict"
    /\ LET raw == DictGet(StoredDocument.v, "skills", PyList(<<>>))
       IN raw.t = "list" /\ \A i \in 1..Len(raw.v) : raw.v[i].t = "str"

\* the entries of that list
StoredEntries ==
    LET raw == DictGet(StoredDocument.v, "skills", PyList(<<>>))
    IN [i \in 1..Len(raw.v) |-> raw.v[i].v]

NoSkillsToFind ==
    /\ StoredStrList
    /\ \/ \A i \in 1..Len(StoredEntries) : NoiseOnly(StoredEntries[i])
       \/ clean_skills(StoredEntries) = <<>>

\* C4: no inference call without cleaned skills; nothing to find gives 400
C4_NoInferenceWithoutSkills ==
    /\ InferenceCalls # <<>> => skills # <<>>
    /\ NoSkillsToFind =>
           /\ InferenceCalls = <<>>
           /\ pc \in {"extract", "check_skills", "done"}
           /\ Done => responses =
                  <<Response(400,
                        ErrorPayload(<<"No skills found in parsed data">>))>>

\* a record whose skills are non-empty entries of marker, commas and blanks
C4_Witness ==
    /\ Done
    /\ StoredStrList
    /\ Len(StoredEntries) > 0
    /\ \A i \in 1..Len(StoredEntries) :
           NoiseOnly(StoredEntries[i]) /\ Len(StoredEntries[i]) > Len(SkillsMarker)
    /\ Status = 400

(***************************************************************************)
(* C5.  An exception raised after the skills check (client and llm set-up, *)
(* prompt and chain construction, the inference call) gives the response   *)
(* 500 with the error "Internal server error: " followed by the            *)
(* exception's text; it does not leave the handler.                        *)
(***************************************************************************)
\* an exception is being handled, or was, and the skills check had passed
RaisedAfterSkillsCheck == exc # "" /\ skills # <<>>

\* C5: an exception after the skills check gives 500 with its text
C5_LateExceptionIs500 ==
    /\ RaisedAfterSkillsCheck =>
           /\ pc \in {"except", "done"}
           /\ escaped = ""
           /\ Done => responses =
                  <<Response(500,
                        ErrorPayload(<<"Internal server error: ", exc>>))>>
    /\ InferenceCalls # <<>> /\ ~InferenceCalls[1].out.ok =>
           /\ exc = InferenceCalls[1].out.exc
           /\ RaisedAfterSkillsCheck

\* the inference call raised and the invocation has ended
C5_Witness ==
    /\ Done
    /\ InferenceCalls # <<>>
    /\ ~InferenceCalls[1].out.ok
    /\ Status = 500

(***************************************************************************)
(* C6.  clean_skills against the algorithm as written down.  As claimed:   *)
(* drop the marker SKILLS: where an entry starts with it, split on ',',    *)
(* keep of each piece what follows its last ':', trimmed, drop the empty   *)
(* results, keep order and duplicates.  As amended: drop every occurrence  *)
(* of the marker, wherever in the entry it stands, then the same.          *)
(***************************************************************************)
\* s without leading and trailing whitespace, by position
Trimmed(s) ==
    LET solid == {i \in 1..Len(s) : s[i] \notin Whitespace}
    IN IF solid = {} THEN <<>>
       ELSE SubSeq(s, CHOOSE i \in solid : \A j \in solid : i <= j,
                      CHOOSE i \in solid : \A j \in solid : i >= j)

\* what follows the last ':' of s, or s when it has none
AfterLastColon(s) ==
    LET colons == {i \in 1..Len(s) : s[i] = ":"}
    IN IF colons = {} THEN s
       ELSE SubSeq(s, (CHOOSE i \in colons : \A j \in colons : i >= j) + 1, Len(s))

\* the pieces of s between its commas, by position
CommaPieces(s) ==
    LET commas == {i \in 1..Len(s) : s[i] = ","}
        \* the position of the k-th comma; 0 before the first one and
        \* Len(s) + 1 after the last
        at(k) == IF k = 0 THEN 0
                 ELSE IF k > Cardinality(commas) THEN Len(s) + 1
                 ELSE CHOOSE i \in commas :
                          Cardinality({j \in commas : j < i}) = k - 1
    IN [k \in 1..(Cardinality(commas) + 1) |-> SubSeq(s, at(k - 1) + 1, at(k) - 1)]

\* the non-empty skills of the pieces, in order
KeptSkills(pieces) ==
    SelectSeq([k \in 1..Len(pieces) |-> Trimmed(AfterLastColon(pieces[k]))],
              LAMBDA x : x # <<>>)

\* all the sequences of a sequence of sequences, one after the other
RECURSIVE Flatten(_)
Flatten(ll) == IF ll = <<>> THEN <<>> ELSE Head(ll) \o Flatten(Tail(ll))

\* the marker dropped where the entry starts with it
WithoutLeadingMarker(e) ==
    IF StartsWith(e, SkillsMarker) THEN SubSeq(e, Len(SkillsMarker) + 1, Len(e))
    ELSE e

\* the marker dropped wherever it stands (it cannot overlap itself)
WithoutAnyMarker(e) ==
    LET starts == {i \in 1..Len(e) :
                      /\ i + Len(SkillsMarker) - 1 <= Len(e)
                      /\ SubSeq(e, i, i + Len(SkillsMarker) - 1) = SkillsMarker}
        kept == {i \in 1..Len(e) :
                    \A j \in starts : i < j \/ i > j + Len(SkillsMarker) - 1}
        \* the k-th kept position
        nth(k) == CHOOSE i \in kept : Cardinality({j \in kept : j < i}) = k - 1
    IN [k \in 1..Cardinality(kept) |-> e[nth(k)]]

ClaimedClean(entries) ==
    Flatten([i \in 1..Len(entries) |->
                KeptSkills(CommaPieces(WithoutLeadingMarker(entries[i])))])

AmendedClean(entries) ==
    Flatten([i \in 1..Len(entries) |->
                KeptSkills(CommaPieces(WithoutAnyMarker(entries[i])))])

\* the fetched record held a list of str and clean_skills has returned
SkillsExtracted == StoredStrList /\ Rank(pc) > Rank("extract")

\* the entry "SKILLS: a: x, b: y"
SpecExampleEntry ==
    SkillsMarker \o <<" ", "a", ":", " ", "x", ",", " ", "b", ":", " ", "y">>

\* C6 as it stands: clean_skills drops the marker only where an entry starts
\* with it
C6_CleanAsClaimed ==
    SkillsExtracted => skills = ClaimedClean(StoredEntries)

\* C6 as amended: clean_skills drops the marker wherever it stands
C6_CleanAsAmended ==
    SkillsExtracted =>
        /\ skills = AmendedClean(StoredEntries)
        /\ StoredEntries = <<SpecExampleEntry>> => skills = << <<"x">>, <<"y">> >>

\* an entry with the marker after other text has been cleaned
C6_Witness ==
    /\ SkillsExtracted
    /\ StoredEntries = << <<"a">> \o SkillsMarker \o <<"b">> >>
    /\ skills = << <<"a", "b">> >>

(***************************************************************************)
(* C8.  In a 200 response skills_used is, element for element, the cleaned *)
(* list: the one clean_skills gave for the fetched record and the one      *)
(* whose join is the skills text of the prompt sent to the model.          *)
(***************************************************************************)
\* the str elements of a list value
StrsOf(list) == [i \in 1..Len(list.v) |-> list.v[i].v]

SkillsUsed == StrsOf(responses[1].body.v.value.v["skills_used"])

\* C8: skills_used of a 200 response is the cleaned list the prompt was
\* built from
C8_SkillsUsedIsPromptSkills ==
    Done /\ Status = 200 =>
        /\ responses[1].body.v.value.v["skills_used"].t = "list"
        /\ \A i \in 1..Len(SkillsUsed) :
               responses[1].body.v.value.v["skills_used"].v[i].t = "str"
        /\ SkillsUsed = skills
        /\ SkillsUsed = clean_skills(ItemsOf(
               DictGet(StoredDocument.v, "skills", PyList(<<>>))))
        /\ InferenceCalls[1].arg[1] = str_join(<<",", " ">>, SkillsUsed)

\* a 200 response that reports several skills
C8_Witness ==
    /\ Done
    /\ Status = 200
    /\ Len(SkillsUsed) > 1
    /\ SkillsUsed[1] # SkillsUsed[2]

(***************************************************************************)
(* C9.  The status code tells the outcome: 200 exactly when userId was     *)
(* there, the storage read succeeded, skills were found and the inference  *)
(* call returned; 400 exactly when userId was missing or no skills were    *)
(* extracted; 404 exactly when the storage read failed; 500 exactly when   *)
(* something else failed.                                                  *)
(***************************************************************************)
UserIdPresent ==
    /\ HasRequestObject
    /\ "userId" \in DOMAIN RequestFields
    /\ RequestFields["userId"].t = "str"
    /\ RequestFields["userId"].v # <<>>

UserIdMissing ==
    /\ HasRequestObject
    /\ \/ "userId" \notin DOMAIN RequestFields
       \/ RequestFields["userId"] \in {PyNone, PyStr(<<>>)}

\* the fetched document is a record whose skills can be cleaned
SkillsCleanable ==
    /\ StorageReadSucceeded
    /\ StoredDocument.t = "dict"
    /\ ~CleanRaises(DictGet(StoredDocument.v, "skills", PyList(<<>>)))

ExtractedSkills ==
    clean_skills(ItemsOf(DictGet(StoredDocument.v, "skills", PyList(<<>>))))

InferenceReturned == InferenceCalls # <<>> /\ InferenceCalls[1].out.ok

\* an exception was raised that is no failure of the storage read
OtherFailure == exc # "" /\ ~StorageReadFailed

\* C9: each status code is returned for its outcome and for no other
C9_StatusTellsOutcome ==
    Done =>
        /\ Status = 200 <=>
               /\ UserIdPresent
               /\ SkillsCleanable /\ ExtractedSkills # <<>>
               /\ InferenceReturned
        /\ Status = 400 <=>
               \/ UserIdMissing
               \/ SkillsCleanable /\ ExtractedSkills = <<>>
        /\ Status = 404 <=> StorageReadFailed
        /\ Status = 500 <=> OtherFailure

\* the read succeeded, the document was no record: the answer is 500
C9_Witness ==
    /\ Done
    /\ UserIdPresent
    /\ StorageReadSucceeded
    /\ StoredDocument.t # "dict"
    /\ Status = 500

(***************************************************************************)
(* C10.  The external calls of an invocation: at most one storage read,    *)
(* at most one inference call, nothing else (no write); the inference call *)
(* comes second, after a storage read that succeeded; a call is never      *)
(* repeated; once a response is returned no call is made.                  *)
(***************************************************************************)
CallsInOrder ==
    /\ Len(StorageReads) <= 1
    /\ Len(InferenceCalls) <= 1
    /\ Len(calls) = Len(StorageReads) + Len(InferenceCalls)
    /\ InferenceCalls # <<>> =>
           /\ Len(calls) = 2
           /\ calls[1].op = "s3.get_object"
           /\ ReadableObject(calls[1].out)
           /\ calls[2].op = "bedrock.invoke_model"

\* C10: one storage read, then at most one inference call, no repetition,
\* no call after the response
C10_CallsOnceInOrder ==
    /\ []CallsInOrder
    /\ [][/\ responses # <<>> => calls' = calls
          /\ calls' # calls =>
                 /\ Len(calls') = Len(calls) + 1
                 /\ SubSeq(calls', 1, Len(calls)) = calls
         ]_vars

\* both calls were made, the second one failed, and the invocation ended
C10_Witness ==
    /\ Done
    /\ Len(calls) = 2
    /\ ~calls[2].out.ok
    /\ Len(responses) = 1

(***************************************************************************)
(* C7.  The questions of a 200 response: each non-blank line of the model  *)
(* output without its leading characters from the digits, '.', ')', '-',   *)
(* the glyph characters and the space; a line that is blank after that is  *)
(* dropped, so that no question is the empty string.  (The glyph of the    *)
(* claim is taken to be the glyph characters of line 115.)                 *)
(***************************************************************************)
ClaimedQuestions(text) ==
    LET lines == str_split(text, "\n")
    IN SelectSeq([i \in 1..Len(lines) |->
                     str_lstrip(str_strip(lines[i]), StripChars)],
                 LAMBDA q : str_strip(q) # <<>>)

QuestionsSent == StrsOf(responses[1].body.v.value.v["questions"])

\* C7: the questions are the stripped lines that are not blank after the
\* stripping; none is the empty string
C7_QuestionsAsClaimed ==
    Done /\ Status = 200 =>
        /\ QuestionsSent = ClaimedQuestions(result)
        /\ \A i \in 1..Len(QuestionsSent) : QuestionsSent[i] # <<>>

====
